---- MODULE Spec2Model ----
(***************************************************************************)
(* Model of etl.py: a one-shot Spark job that reads song metadata and      *)
(* user activity logs, derives five tables with SQL and writes them with   *)
(* mode('overwrite').                                                      *)
(*                                                                         *)
(* Values.  A nullable column value is a tuple: <<>> is SQL NULL / Python  *)
(* None and <<v>> is the value v.  A table (DataFrame, temp view, stored   *)
(* parquet dataset) is a bag of rows: Spark gives rows no order.           *)
(* Input files are sequences of records (the lines of the JSON files).     *)
(***************************************************************************)
EXTENDS Integers, Sequences, FiniteSets, Bags, TLC

VARIABLES
    config,      \* keys present in dl.cfg (the empty set when the file is missing)
    tz,          \* local timezone of the process, hours east of UTC
    song_files,  \* records found at S3.SONG_DATA
    log_files,   \* records found at S3.LOG_DATA
    pc,          \* position of the process in the script
    err,         \* the step that raised, "" while none did
    run,         \* number of the current run of the script
    views,       \* temp views registered in the Spark session: name -> table
    udfs,        \* names of the functions registered with spark.udf.register
    df,          \* DataFrames held in local variables: name -> table
    storage,     \* datasets under S3.DESTINATION_BUCKET: table name -> rows
    trace,       \* engine and storage effects completed by the current run
    prev,        \* storage as the current run found it
    prev_ok,     \* whether the previous run ran to completion
    dp_ts,       \* get_date_part called on its own: argument ts
    dp_part,     \* get_date_part called on its own: argument part
    dp_ret       \* get_date_part called on its own: <<"pending">> or <<"returned", value>>

vars == <<config, tz, song_files, log_files, pc, err, run, views, udfs, df,
          storage, trace, prev, prev_ok, dp_ts, dp_part, dp_ret>>

pipeline_vars == <<config, song_files, log_files, pc, err, run, views, udfs,
                   df, storage, trace, prev, prev_ok>>

date_vars == <<dp_ts, dp_part, dp_ret>>

(***************************************************************************)
(* Bounds                                                                  *)
(***************************************************************************)
MaxSongs == 2      \* records in the song input
MaxEvents == 2     \* records in the log input
MaxRuns == 2       \* runs of the script over the same inputs
MaxDayShift == 7   \* days added to each anchor timestamp

None == <<>>
Some(v) == <<v>>

(***************************************************************************)
(* datetime: the calendar arithmetic behind datetime.fromtimestamp,        *)
(* weekday() and isocalendar().  Days are counted from 1970-01-01, the     *)
(* ordinal of a date from 0001-01-01 = 1 as in CPython.                    *)
(***************************************************************************)
IsLeap(y) == y % 4 = 0 /\ (y % 100 # 0 \/ y % 400 = 0)

DaysBeforeYear(y) ==
    LET p == y - 1 IN p * 365 + (p \div 4) - (p \div 100) + (p \div 400)

DaysInMonth(y, m) ==
    IF m = 2 THEN (IF IsLeap(y) THEN 29 ELSE 28)
    ELSE IF m \in {4, 6, 9, 11} THEN 30 ELSE 31

RECURSIVE DaysBeforeMonth(_, _)
DaysBeforeMonth(y, m) ==
    IF m = 1 THEN 0 ELSE DaysBeforeMonth(y, m - 1) + DaysInMonth(y, m - 1)

Ymd2Ord(y, m, d) == DaysBeforeYear(y) + DaysBeforeMonth(y, m) + d

\* The civil date of a day number (days since 1970-01-01), as localtime()
\* computes it.
CivilFromDays(z0) ==
    LET z   == z0 + 719468
        era == z \div 146097
        doe == z - era * 146097
        yoe == (doe - (doe \div 1460) + (doe \div 36524) - (doe \div 146096)) \div 365
        doy == doe - (365 * yoe + (yoe \div 4) - (yoe \div 100))
        mp  == (5 * doy + 2) \div 153
        d   == doy - ((153 * mp + 2) \div 5) + 1
        m   == IF mp < 10 THEN mp + 3 ELSE mp - 9
        y   == yoe + era * 400 + (IF m <= 2 THEN 1 ELSE 0)
    IN  [year |-> y, month |-> m, day |-> d]

\* A timestamp ts (epoch milliseconds) is held as [days, ms] with
\* ts = days * 86400000 + ms and 0 <= ms < 86400000, so that every
\* intermediate value fits the model checker's integers.
\* dt = datetime.fromtimestamp(ts / 1000.0): the local wall-clock time of
\* ts, in a zone `zone` hours east of UTC.
FromTimestamp(ts, zone) ==
    LET secs  == ts.days * 86400 + (ts.ms \div 1000) + zone * 3600
        days  == secs \div 86400
        sod   == secs % 86400
        civil == CivilFromDays(days)
    IN  [year |-> civil.year, month |-> civil.month, day |-> civil.day,
         hour |-> sod \div 3600]

\* dt.weekday(): Monday = 0 .. Sunday = 6
Weekday(dt) == (Ymd2Ord(dt.year, dt.month, dt.day) + 6) % 7

IsoWeek1Monday(y) ==
    LET firstday     == Ymd2Ord(y, 1, 1)
        firstweekday == (firstday + 6) % 7
        week1monday  == firstday - firstweekday
    IN  IF firstweekday > 3 THEN week1monday + 7 ELSE week1monday

\* dt.isocalendar()[1]
IsoCalendarWeek(dt) ==
    LET today == Ymd2Ord(dt.year, dt.month, dt.day)
        week  == (today - IsoWeek1Monday(dt.year)) \div 7
    IN  IF week < 0
          THEN ((today - IsoWeek1Monday(dt.year - 1)) \div 7) + 1
          ELSE IF week >= 52 /\ today >= IsoWeek1Monday(dt.year + 1)
                 THEN 1
                 ELSE week + 1

(***************************************************************************)
(* get_date_part                                                           *)
(***************************************************************************)
\* Python's `a in b` for two strings: a is a substring of b.
StrIn(a, b) ==
    \/ Len(a) = 0
    \/ \E i \in 1..(Len(b) - Len(a) + 1) : SubSeq(b, i, i + Len(a) - 1) = a

\* part in ("hour", "day", "month", "year"): membership in a tuple
InCalendarFields(part) == part \in {"hour", "day", "month", "year"}

\* part in ("weekday"): the parentheses make no tuple, the right operand is
\* the string "weekday"
InWeekdayParen(part) == StrIn(part, "weekday")

\* part in ("week"): likewise the string "week"
InWeekParen(part) == StrIn(part, "week")

\* getattr(dt, part)
GetAttr(dt, part) ==
    CASE part = "hour"  -> dt.hour
      [] part = "day"   -> dt.day
      [] part = "month" -> dt.month
      [] part = "year"  -> dt.year

\* get_date_part(ts, part) for an integer ts; None when no branch returns
get_date_part(ts, part, zone) ==
    LET dt == FromTimestamp(ts, zone) IN
    IF InCalendarFields(part) THEN Some(GetAttr(dt, part))
    ELSE IF InWeekdayParen(part) THEN Some(Weekday(dt))
    ELSE IF InWeekParen(part) THEN Some(IsoCalendarWeek(dt))
    ELSE None

\* The exception a Python UDF raises inside a Spark job, as a column value:
\* the job that evaluates the row fails.
Raised == <<"TypeError", "unsupported operand type(s) for /">>

\* spark.udf.register("get_date_part", get_date_part): registered without a
\* return type, so the UDF is declared StringType and Spark turns the
\* integer the function returns into its decimal string; None stays NULL.
\* A NULL ts reaches the function as None and `ts / 1000.0` raises.
udf_get_date_part(ts, part, zone) ==
    IF ts = None THEN Raised
    ELSE LET r == get_date_part(ts[1], part, zone)
         IN  IF r = None THEN None ELSE Some(ToString(r[1]))

(***************************************************************************)
(* Spark SQL over bags of rows                                             *)
(***************************************************************************)
\* a = b in a WHERE or ON clause: true only when both sides are non-NULL
\* and equal (NULL = x is unknown, and unknown drops the row)
SqlEq(a, b) == a # None /\ b # None /\ a = b

\* spark.read.json(path): one row per JSON record of the files
ReadJson(files) ==
    LET rows == {files[i] : i \in DOMAIN files}
    IN  [r \in rows |-> Cardinality({i \in DOMAIN files : files[i] = r})]

(***************************************************************************)
(* The queries of process_song_data and process_log_data                   *)
(***************************************************************************)
\* SELECT song_id, title, artist_id, year, duration FROM song_data
SongsRow(r) ==
    [song_id |-> r.song_id, title |-> r.title, artist_id |-> r.artist_id,
     year |-> r.year, duration |-> r.duration]

\* mutant: SELECT DISTINCT
songs_query_distinct(song_data) ==
    SetToBag(DOMAIN BagOfAll(SongsRow, song_data))

songs_query(song_data) == BagOfAll(SongsRow, song_data)

\* SELECT artist_id, artist_name, artist_location, artist_latitude,
\*        artist_longitude FROM song_data
ArtistsRow(r) ==
    [artist_id |-> r.artist_id, artist_name |-> r.artist_name,
     artist_location |-> r.artist_location,
     artist_latitude |-> r.artist_latitude,
     artist_longitude |-> r.artist_longitude]

artists_query(song_data) == BagOfAll(ArtistsRow, song_data)

\* mutant: the queries read user_log_table, not the filtered view
IsNextSong_unfiltered(e) == TRUE

\* WHERE page = "NextSong"
IsNextSong(e) == SqlEq(e.page, Some("NextSong"))

\* SELECT * FROM user_log_table WHERE page = "NextSong"
filter_query(user_log) ==
    [r \in {x \in DOMAIN user_log : IsNextSong(x)} |-> user_log[r]]

\* SELECT userId, firstName, lastName, gender, level FROM filtered_user_log
UsersRow(e) ==
    [userId |-> e.userId, firstName |-> e.firstName, lastName |-> e.lastName,
     gender |-> e.gender, level |-> e.level]

users_query(filtered) == BagOfAll(UsersRow, filtered)

\* SELECT ts, get_date_part(ts, "hour") as hour, ... FROM filtered_user_log
TimeRow(e, zone) ==
    [ts      |-> e.ts,
     hour    |-> udf_get_date_part(e.ts, "hour", zone),
     day     |-> udf_get_date_part(e.ts, "day", zone),
     month   |-> udf_get_date_part(e.ts, "month", zone),
     year    |-> udf_get_date_part(e.ts, "year", zone),
     week    |-> udf_get_date_part(e.ts, "week", zone),
     weekday |-> udf_get_date_part(e.ts, "weekday", zone)]

time_query(filtered, zone) ==
    LET F(e) == TimeRow(e, zone) IN BagOfAll(F, filtered)

\* mutant: the join matches on the title alone
JoinOn_title(e, s) == SqlEq(e.song, s.title)

\* ON filtered_user_log.song = songs.title
\*    AND filtered_user_log.length = songs.duration
JoinOn(e, s) == SqlEq(e.song, s.title) /\ SqlEq(e.length, s.duration)

\* WHERE userId IS NOT NULL AND filtered_user_log.artist IS NOT NULL
\*       AND filtered_user_log.song IS NOT NULL
SongplaysWhere(p) == p.l.userId # None /\ p.l.artist # None /\ p.l.song # None

\* the right side of an unmatched row of the left join
NullSongsRow ==
    [song_id |-> None, title |-> None, artist_id |-> None, year |-> None,
     duration |-> None]

\* the SELECT list of the songplays query
SongplaysRow(p, zone) ==
    [ts        |-> p.l.ts,
     year      |-> udf_get_date_part(p.l.ts, "year", zone),
     month     |-> udf_get_date_part(p.l.ts, "month", zone),
     userId    |-> p.l.userId,
     level     |-> p.l.level,
     song_id   |-> p.r.song_id,
     artist_id |-> p.r.artist_id,
     sessionId |-> p.l.sessionId,
     location  |-> p.l.location,
     userAgent |-> p.l.userAgent]

\* FROM filtered_user_log LEFT JOIN songs ON ...: a pair for every event
\* and song row that match, counted once per copy of either, and for an
\* event without a match one pair with the NULL-extended right side.
left_join_songs(filtered, songs) ==
    LET matched   == {p \in {[l |-> x, r |-> y] :
                                x \in DOMAIN filtered, y \in DOMAIN songs} :
                         JoinOn(p.l, p.r)}
        unmatched == {[l |-> x, r |-> NullSongsRow] :
                         x \in {x \in DOMAIN filtered :
                                   \A y \in DOMAIN songs : ~JoinOn(x, y)}}
    IN  [p \in matched \cup unmatched |->
            IF p \in matched THEN filtered[p.l] * songs[p.r]
                             ELSE filtered[p.l]]

\* mutant: JOIN in place of LEFT JOIN
songplays_query_inner(filtered, songs, zone) ==
    LET F(p)   == SongplaysRow(p, zone)
        joined == left_join_songs(filtered, songs)
    IN  BagOfAll(F, [p \in {q \in DOMAIN joined :
                               JoinOn(q.l, q.r) /\ SongplaysWhere(q)}
                       |-> joined[p]])

songplays_query(filtered, songs, zone) ==
    LET F(p)   == SongplaysRow(p, zone)
        joined == left_join_songs(filtered, songs)
    IN  BagOfAll(F, [p \in {q \in DOMAIN joined : SongplaysWhere(q)}
                       |-> joined[p]])

(***************************************************************************)
(* Inputs                                                                  *)
(***************************************************************************)
AllKeys ==
    {"AWS.AWS_ACCESS_KEY_ID", "AWS.AWS_SECRET_ACCESS_KEY",
     "S3.SONG_DATA", "S3.LOG_DATA", "S3.DESTINATION_BUCKET"}

\* dl.cfg complete, lacking one key, or missing (config.read then reads nothing)
Configs == {AllKeys} \cup {AllKeys \ {k} : k \in AllKeys} \cup {{}}

TimeZones == {-8, 0}

Song(id, title, artist, yr, dur) ==
    [song_id |-> Some(id), title |-> Some(title), artist_id |-> Some(artist),
     year |-> Some(yr), duration |-> Some(dur),
     artist_name |-> Some(artist), artist_location |-> None,
     artist_latitude |-> None, artist_longitude |-> None]

\* S1 and S2 share title and duration; S1 and S3 share the artist
SongCatalog ==
    << Song("S1", "T1", "A1", 2000, 200),
       Song("S2", "T1", "A2", 2001, 200),
       Song("S3", "T2", "A1", 2000, 300) >>

Event(ts, page, user, song, artist, length) ==
    [ts |-> ts, page |-> page, userId |-> user, firstName |-> user,
     lastName |-> None, gender |-> None, level |-> Some("free"),
     song |-> song, artist |-> artist, length |-> length,
     sessionId |-> Some(1), location |-> None, userAgent |-> None]

TsA == Some([days |-> 17850, ms |-> 3626796])   \* 2018-11-15 01:00:26.796 UTC
TsB == Some([days |-> 17897, ms |-> 1800000])   \* 2019-01-01 00:30:00 UTC

EventCatalog ==
    << Event(TsA, Some("NextSong"), Some("u1"), Some("T1"), Some("Ar"), Some(200)),
       Event(TsB, Some("NextSong"), Some("u1"), Some("T2"), Some("Ar"), Some(200)),
       Event(TsB, Some("Home"), Some("u1"), None, None, None),
       Event(TsA, None, Some("u2"), Some("T1"), Some("Ar"), Some(200)),
       Event(TsB, Some("NextSong"), None, Some("T1"), Some("Ar"), Some(200)),
       Event(TsA, Some("NextSong"), Some("u2"), None, None, None),
       Event(None, Some("NextSong"), Some("u2"), Some("T2"), Some("Ar"), Some(300)) >>

\* Files of at most max records drawn from a catalog.  A table read from
\* the files is a bag, so one order per multiset of records is enough.
InputFiles(catalog, max) ==
    UNION { { [i \in 1..n |-> catalog[f[i]]] :
                f \in {g \in [1..n -> 1..Len(catalog)] :
                          \A i \in 1..(n - 1) : g[i] <= g[i + 1]} } :
            n \in 0..max }

\* get_date_part called on its own
AnchorDays == {-3, 11015, 16797, 17161, 17526, 17846, 17891, 18320, 18622}

DateTs ==
    {[days |-> a + k, ms |-> m] :
        a \in AnchorDays, k \in 0..MaxDayShift, m \in {0, 3626796, 86399999}}

Parts ==
    {"hour", "day", "month", "year", "weekday", "week",
     "", "w", "eek", "minute", "Week", "days"}

(***************************************************************************)
(* The script                                                              *)
(***************************************************************************)
process_song_data ==
    <<"read_song_data", "songs_table", "artists_table",
      "write_artists", "write_songs">>

process_log_data ==
    <<"read_log_data", "filtered_user_log", "user_table", "register_udf",
      "time_table", "songplays_table", "write_user", "write_time",
      "write_songplays">>

\* mutant: main() calls process_log_data first
main_log_first ==
    <<"create_spark_session">> \o process_log_data \o process_song_data

\* main(): the session, then the song data, then the log data
main == <<"create_spark_session">> \o process_song_data \o process_log_data

\* module level (the configuration and the two environment variables),
\* then main()
Script == <<"load_config">> \o main

NextStep(step) ==
    LET i == CHOOSE j \in DOMAIN Script : Script[j] = step
    IN  IF i = Len(Script) THEN "done" ELSE Script[i + 1]

\* mutant: the exception is caught and the script goes on
Uncaught_swallowed(step) == NextStep(step)

\* No statement of the script catches an exception: the process ends.
Uncaught(step) == "failed"

Tables == {"artists", "songs", "user", "time", "songplays"}

NoTables == [t \in {} |-> EmptyBag]

Ok(step) ==
    /\ pc' = NextStep(step)
    /\ trace' = Append(trace, step)
    /\ err' = err

Fail(step) ==
    /\ pc' = Uncaught(step)
    /\ err' = step
    /\ trace' = trace

\* mutant: mode('append')
SaveMode_append(old, rows) == old (+) rows

\* DataFrameWriter.mode('overwrite'): the dataset is replaced by the rows
SaveMode(old, rows) == rows

HasRaised(rows) == \E r \in DOMAIN rows : \E c \in DOMAIN r : r[c] = Raised

GoodRows(rows) ==
    [r \in {x \in DOMAIN rows : \A c \in DOMAIN x : x[c] # Raised} |-> rows[r]]

\* What a write that fails can leave of the dataset: what was there (the
\* failure came before the old files were deleted) or any part of the new
\* rows (none of them when the job aborted cleanly).
FailedWrite(old, rows) == {old} \cup SubBag(GoodRows(rows))

Init ==
    /\ config \in Configs
    /\ tz \in TimeZones
    /\ song_files \in InputFiles(SongCatalog, MaxSongs)
    /\ log_files \in InputFiles(EventCatalog, MaxEvents)
    /\ pc = "load_config"
    /\ err = ""
    /\ run = 1
    /\ views = NoTables
    /\ udfs = {}
    /\ df = NoTables
    /\ storage = [t \in Tables |-> EmptyBag]
    /\ trace = <<>>
    /\ prev = [t \in Tables |-> EmptyBag]
    /\ prev_ok = FALSE
    /\ dp_ts = [days |-> 0, ms |-> 0]
    /\ dp_part = ""
    /\ dp_ret = <<"pending">>

\* lines 9-13: the two AWS keys are read at import
LoadConfig ==
    /\ pc = "load_config"
    /\ IF {"AWS.AWS_ACCESS_KEY_ID", "AWS.AWS_SECRET_ACCESS_KEY"} \subseteq config
         THEN Ok("load_config")
         ELSE Fail("load_config")
    /\ UNCHANGED <<config, tz, song_files, log_files, run, views, udfs, df,
                   storage, prev, prev_ok, date_vars>>

CreateSparkSession ==
    /\ pc = "create_spark_session"
    /\ \/ Ok("create_spark_session")
       \/ Fail("create_spark_session")
    /\ UNCHANGED <<config, tz, song_files, log_files, run, views, udfs, df,
                   storage, prev, prev_ok, date_vars>>

\* spark.read.json(config['S3'][key]) and createOrReplaceTempView(view)
ReadData(step, key, files, view) ==
    /\ pc = step
    /\ IF key \notin config
         THEN Fail(step) /\ UNCHANGED views
         ELSE \/ /\ views' = (view :> ReadJson(files)) @@ views
                 /\ Ok(step)
              \/ Fail(step) /\ UNCHANGED views
    /\ UNCHANGED <<config, tz, song_files, log_files, run, udfs, df,
                   storage, prev, prev_ok, date_vars>>

ReadSongData == ReadData("read_song_data", "S3.SONG_DATA", song_files, "song_data")

ReadLogData == ReadData("read_log_data", "S3.LOG_DATA", log_files, "user_log_table")

\* songs_table = spark.sql(...); songs_table.createOrReplaceTempView('songs')
SongsTable ==
    /\ pc = "songs_table"
    /\ IF "song_data" \in DOMAIN views
         THEN LET t == songs_query(views["song_data"])
              IN  /\ df' = ("songs_table" :> t) @@ df
                  /\ views' = ("songs" :> t) @@ views
                  /\ Ok("songs_table")
         ELSE Fail("songs_table") /\ UNCHANGED <<df, views>>
    /\ UNCHANGED <<config, tz, song_files, log_files, run, udfs,
                   storage, prev, prev_ok, date_vars>>

ArtistsTable ==
    /\ pc = "artists_table"
    /\ IF "song_data" \in DOMAIN views
         THEN /\ df' = ("artists_table" :> artists_query(views["song_data"])) @@ df
              /\ Ok("artists_table")
         ELSE Fail("artists_table") /\ UNCHANGED df
    /\ UNCHANGED <<config, tz, song_files, log_files, run, views, udfs,
                   storage, prev, prev_ok, date_vars>>

FilteredUserLog ==
    /\ pc = "filtered_user_log"
    /\ IF "user_log_table" \in DOMAIN views
         THEN /\ views' = ("filtered_user_log" :>
                              filter_query(views["user_log_table"])) @@ views
              /\ Ok("filtered_user_log")
         ELSE Fail("filtered_user_log") /\ UNCHANGED views
    /\ UNCHANGED <<config, tz, song_files, log_files, run, udfs, df,
                   storage, prev, prev_ok, date_vars>>

UserTable ==
    /\ pc = "user_table"
    /\ IF "filtered_user_log" \in DOMAIN views
         THEN /\ df' = ("user_table" :>
                           users_query(views["filtered_user_log"])) @@ df
              /\ Ok("user_table")
         ELSE Fail("user_table") /\ UNCHANGED df
    /\ UNCHANGED <<config, tz, song_files, log_files, run, views, udfs,
                   storage, prev, prev_ok, date_vars>>

RegisterUdf ==
    /\ pc = "register_udf"
    /\ udfs' = udfs \cup {"get_date_part"}
    /\ Ok("register_udf")
    /\ UNCHANGED <<config, tz, song_files, log_files, run, views, df,
                   storage, prev, prev_ok, date_vars>>

TimeTable ==
    /\ pc = "time_table"
    /\ IF "filtered_user_log" \in DOMAIN views /\ "get_date_part" \in udfs
         THEN /\ df' = ("time_table" :>
                           time_query(views["filtered_user_log"], tz)) @@ df
              /\ Ok("time_table")
         ELSE Fail("time_table") /\ UNCHANGED df
    /\ UNCHANGED <<config, tz, song_files, log_files, run, views, udfs,
                   storage, prev, prev_ok, date_vars>>

SongplaysTable ==
    /\ pc = "songplays_table"
    /\ IF /\ {"filtered_user_log", "songs"} \subseteq DOMAIN views
          /\ "get_date_part" \in udfs
         THEN /\ df' = ("songplays_table" :>
                           songplays_query(views["filtered_user_log"],
                                           views["songs"], tz)) @@ df
              /\ Ok("songplays_table")
         ELSE Fail("songplays_table") /\ UNCHANGED df
    /\ UNCHANGED <<config, tz, song_files, log_files, run, views, udfs,
                   storage, prev, prev_ok, date_vars>>

\* frame.write.mode('overwrite')[.partitionBy(...)].parquet(
\*     config['S3']['DESTINATION_BUCKET'] + '<table>_table.data')
\* The job runs the frame's query: a row whose UDF raises fails the write.
Write(step, frame, table) ==
    /\ pc = step
    /\ IF "S3.DESTINATION_BUCKET" \notin config \/ frame \notin DOMAIN df
         THEN Fail(step) /\ UNCHANGED storage
         ELSE \/ /\ ~HasRaised(df[frame])
                 /\ storage' = [storage EXCEPT
                                  ![table] = SaveMode(@, df[frame])]
                 /\ Ok(step)
              \/ /\ \E left \in FailedWrite(storage[table], df[frame]) :
                        storage' = [storage EXCEPT ![table] = left]
                 /\ Fail(step)
    /\ UNCHANGED <<config, tz, song_files, log_files, run, views, udfs, df,
                   prev, prev_ok, date_vars>>

WriteArtists == Write("write_artists", "artists_table", "artists")

WriteSongs == Write("write_songs", "songs_table", "songs")

WriteUser == Write("write_user", "user_table", "user")

WriteTime == Write("write_time", "time_table", "time")

WriteSongplays == Write("write_songplays", "songplays_table", "songplays")

\* The script is run again after a run that completed: a new process and
\* a new session over the same configuration, inputs and destination.
\* (A run that failed ends the behaviours modelled here.)
Rerun ==
    /\ pc = "done"
    /\ run < MaxRuns
    /\ run' = run + 1
    /\ pc' = Script[1]
    /\ err' = ""
    /\ views' = NoTables
    /\ udfs' = {}
    /\ df' = NoTables
    /\ trace' = <<>>
    /\ prev' = storage
    /\ prev_ok' = (pc = "done")
    /\ UNCHANGED <<config, tz, song_files, log_files, storage, date_vars>>

Next ==
    \/ LoadConfig
    \/ CreateSparkSession
    \/ ReadSongData
    \/ SongsTable
    \/ ArtistsTable
    \/ WriteArtists
    \/ WriteSongs
    \/ ReadLogData
    \/ FilteredUserLog
    \/ UserTable
    \/ RegisterUdf
    \/ TimeTable
    \/ SongplaysTable
    \/ WriteUser
    \/ WriteTime
    \/ WriteSongplays
    \/ Rerun

Spec == Init /\ [][Next]_vars

(***************************************************************************)
(* get_date_part called on its own, over timestamps, parts and timezones   *)
(***************************************************************************)
InitDate ==
    /\ dp_ts \in DateTs
    /\ dp_part \in Parts
    /\ tz \in TimeZones
    /\ dp_ret = <<"pending">>
    /\ config = AllKeys
    /\ song_files = <<>>
    /\ log_files = <<>>
    /\ pc = "get_date_part"
    /\ err = ""
    /\ run = 1
    /\ views = NoTables
    /\ udfs = {}
    /\ df = NoTables
    /\ storage = [t \in Tables |-> EmptyBag]
    /\ trace = <<>>
    /\ prev = [t \in Tables |-> EmptyBag]
    /\ prev_ok = FALSE

CallGetDatePart ==
    /\ pc = "get_date_part"
    /\ dp_ret = <<"pending">>
    /\ dp_ret' = <<"returned", get_date_part(dp_ts, dp_part, tz)>>
    /\ UNCHANGED <<pipeline_vars, tz, dp_ts, dp_part>>

NextDate == CallGetDatePart

SpecDate == InitDate /\ [][NextDate]_vars

(***************************************************************************)
(* Properties                                                              *)
(***************************************************************************)
Range(q) == {q[i] : i \in DOMAIN q}

\* the step completed in the current run
Wrote(step) == step \in Range(trace)

Max(a, b) == IF a >= b THEN a ELSE b

RECURSIVE SumOver(_, _)
SumOver(f, S) ==
    IF S = {} THEN 0
    ELSE LET x == CHOOSE y \in S : TRUE IN f[x] + SumOver(f, S \ {x})

\* the log records whose page is the string "NextSong"
NextSongEvents == {i \in DOMAIN log_files : log_files[i].page = Some("NextSong")}

\* the NextSong records with userId, artist and song present
QualifyingEvents ==
    {i \in NextSongEvents :
        /\ log_files[i].userId # None
        /\ log_files[i].artist # None
        /\ log_files[i].song # None}

\* the song records with title = the event's song and duration = its length
MatchingSongs(i) ==
    {j \in DOMAIN song_files :
        /\ log_files[i].length # None
        /\ song_files[j].title = log_files[i].song
        /\ song_files[j].duration = log_files[i].length}

\* a Songplays row carries the columns of log record i
RowOfEvent(r, i) ==
    /\ r.ts = log_files[i].ts
    /\ r.userId = log_files[i].userId
    /\ r.level = log_files[i].level
    /\ r.sessionId = log_files[i].sessionId
    /\ r.location = log_files[i].location
    /\ r.userAgent = log_files[i].userAgent

\* the ways a row r of Songplays can come from a NextSong record: record i
\* with song record j, or record i with no song (j = 0)
PlayDerivations(r) ==
    {d \in NextSongEvents \X (0..Len(song_files)) :
        /\ RowOfEvent(r, d[1])
        /\ IF d[2] = 0
             THEN r.song_id = None /\ r.artist_id = None
             ELSE /\ r.song_id = song_files[d[2]].song_id
                  /\ r.artist_id = song_files[d[2]].artist_id}

\* C1: a log record whose page is not "NextSong" (a NULL page included)
\* leaves no row in Users, Time or Songplays: every row these tables hold
\* after the run wrote them is accounted for by a NextSong record, as many
\* times as it occurs.
C1_NonNextSongExcluded ==
    /\ Wrote("write_user") =>
         \A r \in DOMAIN storage["user"] :
            storage["user"][r] <=
               Cardinality({i \in NextSongEvents : UsersRow(log_files[i]) = r})
    /\ Wrote("write_time") =>
         \A r \in DOMAIN storage["time"] :
            storage["time"][r] <=
               Cardinality({i \in NextSongEvents : log_files[i].ts = r.ts})
    /\ Wrote("write_songplays") =>
         \A r \in DOMAIN storage["songplays"] :
            storage["songplays"][r] <= Cardinality(PlayDerivations(r))

\* a run wrote the three log tables, none of them empty, from a log that
\* holds a NextSong record and a record with a NULL page
C1_Witness ==
    /\ Wrote("write_songplays")
    /\ \E i \in DOMAIN log_files : log_files[i].page = None
    /\ NextSongEvents # {}
    /\ \A t \in {"user", "time", "songplays"} : storage[t] # EmptyBag

\* C2: a NextSong record with userId, artist and song present and no song
\* record of equal title and duration still has its row in Songplays, with
\* song_id and artist_id NULL.
C2_UnmatchedEventKept ==
    Wrote("write_songplays") =>
       \A i \in QualifyingEvents :
          MatchingSongs(i) = {} =>
             LET rows == {r \in DOMAIN storage["songplays"] :
                             /\ RowOfEvent(r, i)
                             /\ r.song_id = None
                             /\ r.artist_id = None}
                 same == {k \in QualifyingEvents :
                             /\ MatchingSongs(k) = {}
                             /\ \A r \in rows : RowOfEvent(r, k)}
             IN  /\ rows # {}
                 /\ SumOver([r \in rows |-> storage["songplays"][r]], rows)
                       >= Cardinality(same)

\* Songplays was written from a log with a qualifying record that matches
\* no song although the song table is not empty and shares its title
C2_Witness ==
    /\ Wrote("write_songplays")
    /\ \E i \in QualifyingEvents :
          /\ MatchingSongs(i) = {}
          /\ \E j \in DOMAIN song_files : song_files[j].title = log_files[i].song

\* The rows a projection F yields over the records `idx` of `files`, each
\* as often as records yield it: r occurs in `table` once per record.
OneRowPerRecord(table, F(_), files, idx) ==
    /\ BagCardinality(table) = Cardinality(idx)
    /\ \A i \in idx :
          CopiesIn(F(files[i]), table) =
             Cardinality({k \in idx : F(files[k]) = F(files[i])})

\* C7: no projection deduplicates or drops a record: Songs and Artists hold
\* one row per song record, Users and Time one row per NextSong record.
C7_OneRowPerRecord ==
    /\ Wrote("write_songs") =>
         /\ OneRowPerRecord(storage["songs"], SongsRow, song_files,
                            DOMAIN song_files)
         /\ (Cardinality({song_files[i].song_id : i \in DOMAIN song_files})
                = Len(song_files)) =>
              BagCardinality(storage["songs"]) =
                 Cardinality({song_files[i].song_id : i \in DOMAIN song_files})
    /\ Wrote("write_artists") =>
         /\ OneRowPerRecord(storage["artists"], ArtistsRow, song_files,
                            DOMAIN song_files)
         /\ \A a \in {song_files[i].artist_id : i \in DOMAIN song_files} :
               LET rows == {r \in DOMAIN storage["artists"] : r.artist_id = a}
               IN  SumOver([r \in rows |-> storage["artists"][r]], rows) =
                      Cardinality({i \in DOMAIN song_files :
                                      song_files[i].artist_id = a})
    /\ Wrote("write_user") =>
         OneRowPerRecord(storage["user"], UsersRow, log_files, NextSongEvents)
    /\ Wrote("write_time") =>
         /\ BagCardinality(storage["time"]) = Cardinality(NextSongEvents)
         /\ \A i \in NextSongEvents :
               LET rows == {r \in DOMAIN storage["time"] : r.ts = log_files[i].ts}
               IN  SumOver([r \in rows |-> storage["time"][r]], rows) =
                      Cardinality({k \in NextSongEvents :
                                      log_files[k].ts = log_files[i].ts})

\* the four tables were written from inputs that repeat a song record, an
\* artist and a user
C7_Witness ==
    /\ Wrote("write_time")
    /\ Len(song_files) = 2
    /\ song_files[1].artist_id = song_files[2].artist_id
    /\ Cardinality(NextSongEvents) = 2
    /\ log_files[1].userId = log_files[2].userId
    /\ BagCardinality(storage["artists"]) = 2
    /\ BagCardinality(storage["user"]) = 2

\* C10: a qualifying record yields max(1, k) Songplays rows, k the number
\* of song records of equal title and duration: one row per matching song
\* record with its song_id and artist_id, one NULL-extended row when k = 0.
C10_RowsPerEvent ==
    Wrote("write_songplays") =>
       /\ BagCardinality(storage["songplays"]) =
             SumOver([i \in QualifyingEvents |->
                         Max(1, Cardinality(MatchingSongs(i)))],
                     QualifyingEvents)
       /\ \A i \in QualifyingEvents :
             LET rows == {r \in DOMAIN storage["songplays"] : RowOfEvent(r, i)}
                 same == {k \in QualifyingEvents :
                             \A r \in rows : RowOfEvent(r, k)}
             IN  /\ SumOver([r \in rows |-> storage["songplays"][r]], rows) =
                       SumOver([k \in same |->
                                   Max(1, Cardinality(MatchingSongs(k)))], same)
                 /\ \A j \in MatchingSongs(i) :
                       \E r \in rows :
                          /\ r.song_id = song_files[j].song_id
                          /\ r.artist_id = song_files[j].artist_id

\* one qualifying record matched two song records: Songplays holds two
\* rows for it, more rows than there are qualifying records
C10_Witness ==
    /\ Wrote("write_songplays")
    /\ \E i \in QualifyingEvents : Cardinality(MatchingSongs(i)) = 2
    /\ BagCardinality(storage["songplays"]) > Cardinality(QualifyingEvents)
    /\ Cardinality(DOMAIN storage["songplays"]) = 2

\* C4: a second run over the same inputs and configuration leaves each of
\* the five tables with exactly what the first run produced.
C4_RerunIdempotent ==
    (run >= 2 /\ prev_ok /\ pc = "done") => storage = prev

\* a second run completed over tables the first run had filled
C4_Witness ==
    /\ run = 2
    /\ prev_ok
    /\ pc = "done"
    /\ \A t \in Tables : prev[t] # EmptyBag

WriteOrder ==
    <<"write_artists", "write_songs", "write_user", "write_time",
      "write_songplays">>

TableOf ==
    [k \in 1..5 |-> <<"artists", "songs", "user", "time", "songplays">>[k]]

FrameOf ==
    [k \in 1..5 |-> <<"artists_table", "songs_table", "user_table",
                      "time_table", "songplays_table">>[k]]

\* C5: the tables are written in the order Artists, Songs, Users, Time,
\* Songplays; when a write fails the run ends there, the tables written
\* before keep what this run wrote and the tables after are not written.
C5_WriteFailureAborts ==
    /\ LET done == SelectSeq(trace, LAMBDA x : x \in Range(WriteOrder))
       IN  done = SubSeq(WriteOrder, 1, Len(done))
    /\ \A k \in 1..5 :
          err = WriteOrder[k] =>
             /\ pc = "failed"
             /\ ~Wrote(WriteOrder[k])
             /\ \A j \in 1..(k - 1) :
                   /\ Wrote(WriteOrder[j])
                   /\ storage[TableOf[j]] = df[FrameOf[j]]
             /\ \A j \in (k + 1)..5 :
                   /\ ~Wrote(WriteOrder[j])
                   /\ storage[TableOf[j]] = prev[TableOf[j]]

\* the write of Time failed in a second run, on a UDF error or in the
\* engine, after Artists, Songs and Users were written and filled
C5_Witness ==
    /\ run = 2
    /\ err = "write_time"
    /\ storage["user"] # EmptyBag
    /\ storage["songs"] # EmptyBag
    /\ prev["songplays"] # EmptyBag
    /\ storage["time"] # prev["time"]

SongSteps == Range(process_song_data)

LogSteps == Range(process_log_data)

\* C8: process_song_data completes (song data read, 'songs' registered,
\* Artists and Songs written) before process_log_data takes a step, and
\* when it fails process_log_data never starts.
C8_SongThenLog ==
    /\ \A i \in DOMAIN trace :
          trace[i] \in LogSteps =>
             \A s \in SongSteps : \E j \in 1..(i - 1) : trace[j] = s
    /\ pc \in LogSteps =>
          /\ SongSteps \subseteq Range(trace)
          /\ "songs" \in DOMAIN views
          /\ storage["artists"] = df["artists_table"]
          /\ storage["songs"] = df["songs_table"]
    /\ err \in SongSteps =>
          /\ pc = "failed"
          /\ LogSteps \cap Range(trace) = {}
          /\ \A t \in {"user", "time", "songplays"} : storage[t] = prev[t]

\* process_log_data is at its join and reads the view process_song_data
\* registered
C8_Witness ==
    /\ pc = "songplays_table"
    /\ "songs" \in DOMAIN views
    /\ views["songs"] # EmptyBag
    /\ views["filtered_user_log"] # EmptyBag

\* process_song_data failed at a write in a second run
C8_WitnessFailure ==
    /\ run = 2
    /\ err = "write_songs"
    /\ prev["user"] # EmptyBag

EngineSteps ==
    {"create_spark_session", "read_song_data", "read_log_data"}
       \cup Range(WriteOrder)

\* C6: with dl.cfg missing or lacking one of the five keys, the process
\* fails before the session is acquired, any input read or any table
\* written.
C6_MissingKeyFailsAtStartup ==
    config # AllKeys => Range(trace) \cap EngineSteps = {}

\* The ISO-8601 week of the local date of ts: the week of a date is the
\* week of the Thursday of its Monday-to-Sunday week, counted within that
\* Thursday's year (1970-01-01, day 0, was a Thursday).
IsoWeekNumber(ts, zone) ==
    LET secs     == ts.days * 86400 + (ts.ms \div 1000) + zone * 3600
        day      == secs \div 86400
        thursday == day - ((day + 3) % 7) + 3
        y        == CivilFromDays(thursday).year
        jan1     == Ymd2Ord(y, 1, 1) - Ymd2Ord(1970, 1, 1)
    IN  ((thursday - jan1) \div 7) + 1

\* C3: get_date_part(ts, "week") is the ISO-8601 week number of ts, a
\* value in 1..53.
C3_WeekIsIsoWeek ==
    (dp_ret[1] = "returned" /\ dp_part = "week") =>
       /\ dp_ret[2] = Some(IsoWeekNumber(dp_ts, tz))
       /\ dp_ret[2][1] \in 1..53

RecognisedParts == {"hour", "day", "month", "year", "weekday", "week"}

\* C9: for a part other than the six recognised names get_date_part
\* returns None.
C9_UnknownPartReturnsNone ==
    (dp_ret[1] = "returned" /\ dp_part \notin RecognisedParts) =>
       dp_ret[2] = None

====
